---- MODULE Spec2Model ----
(***************************************************************************)
(* Model of es-optimize (src/elasticsearch.py): the shard sizing policy of *)
(* IndexOptimizer.index_optimize_shards and the create / reindex / delete  *)
(* / alias / force-merge workflow of IndexOptimizer.index_replace, run     *)
(* against a model of the Elasticsearch cluster the Connection talks to.   *)
(*                                                                         *)
(* Sizes in bytes exceed the range of the model checker's integers, so a   *)
(* size is the exact pair [u, b] standing for 256 * u + b bytes with       *)
(* 0 <= b < 256.  256 divides 2 GiB, 30 GiB, 45 GiB and 500 000 000, so    *)
(* every threshold of the code is a whole number of units and every        *)
(* comparison and rounding below is exact to the byte.                     *)
(***************************************************************************)
EXTENDS Integers, Sequences, FiniteSets, TLC

(* ---------------------------- bounds ---------------------------------- *)
MaxShards == 3
MaxReplicas == 2
MaxNodes == 2
MaxIndices == 3
MaxDocs == 2
MaxRuns == 2
MaxHalfUnits == 10

(* ------------------------ program constants --------------------------- *)
\* 2147483648 bytes, in 256-byte units
size_2gb == 8388608
\* 32212254720 bytes, in 256-byte units
size_30gb == 125829120
\* 48318382080 bytes, in 256-byte units
size_45gb == 188743680
\* 500000000 bytes, in 256-byte units
size_500mb == 1953125

(* --------------------------- sizes ------------------------------------ *)
Sz(units, bytes) == [u |-> units, b |-> bytes]

SzLt(x, y) == x.u < y.u \/ (x.u = y.u /\ x.b < y.b)

\* the size one byte below a whole number of units (units > 0)
SzPred(units) == Sz(units - 1, 255)

\* rounding that takes every tie upwards
RoundDivHalfUp(size, den) ==
    LET q == size.u \div den
        m == size.u % den
        half == Sz(den \div 2, (den % 2) * 128)
        rem == Sz(m, size.b)
    IN  IF SzLt(rem, half) THEN q ELSE q + 1

\* Python's round(x / (256 * den)) for x = 256 * size.u + size.b bytes:
\* true division followed by round-half-to-even.
RoundDiv(size, den) ==
    LET q == size.u \div den
        m == size.u % den
        half == Sz(den \div 2, (den % 2) * 128)
        rem == Sz(m, size.b)
    IN  IF SzLt(rem, half) THEN q
        ELSE IF SzLt(half, rem) THEN q + 1
        ELSE IF q % 2 = 0 THEN q ELSE q + 1

\* Python's round(n / d) on small non-negative integers, d > 0
RoundRatio(n, d) ==
    LET q == n \div d
        m == n % d
    IN  IF 2 * m < d THEN q
        ELSE IF 2 * m > d THEN q + 1
        ELSE IF q % 2 = 0 THEN q ELSE q + 1

\* a comparison that includes the bound itself
PerShardAtLeast45gb(size, shards) ==
    /\ shards > 0
    /\ size.u >= size_45gb * shards

\* index_primary_size / index_shards > size_45gb, for index_shards # 0.
\* A negative divisor gives a quotient <= 0, which is never above 45 GiB.
PerShardAbove45gb(size, shards) ==
    /\ shards > 0
    /\ \/ size.u > size_45gb * shards
       \/ size.u = size_45gb * shards /\ size.b > 0

(* ------------------------- sizing policy ------------------------------ *)
NoAction == [kind |-> "none", target |-> 0]
ZeroDivisionError == [kind |-> "error", target |-> 0]
Replace(n) == [kind |-> "replace", target |-> n]

\* a reduction that does not spare the single-shard index
ShouldReduceAnyShards(index_shards, index_primary_size) ==
    SzLt(index_primary_size, Sz(size_2gb, 0)) /\ index_shards >= 1

\* a reduction decided on the size per shard, below 30 GiB
ShouldReducePerShard(index_shards, index_primary_size) ==
    index_shards > 1 /\ index_primary_size.u < size_30gb * index_shards

\* index_primary_size < size_2gb and index_shards > 1
ShouldReduce(index_shards, index_primary_size) ==
    SzLt(index_primary_size, Sz(size_2gb, 0)) /\ index_shards > 1

\* The decision taken by index_optimize_shards once config and stats are
\* fetched: which index_replace call it makes, if any.
Policy(index_shards, index_primary_size) ==
    IF ShouldReduce(index_shards, index_primary_size)
    THEN Replace(1)
    ELSE IF index_shards = 0
    THEN ZeroDivisionError
    ELSE IF PerShardAbove45gb(index_primary_size, index_shards)
    THEN LET number_of_shards == RoundDiv(index_primary_size, size_30gb)
         IN  IF index_shards < number_of_shards
             THEN Replace(number_of_shards)
             ELSE NoAction
    ELSE NoAction

(* ---------------------------- names ----------------------------------- *)
Names == {"logs", "metrics"}
MaxUuids == MaxRuns * Cardinality(Names)
\* one fixed name for every replacement index
UuidFixed(k) == "u1"

\* uuid.uuid4(): the k-th token generated; tokens are never reused
Uuid(k) == "u" \o ToString(k)
Uuids == {Uuid(k) : k \in 1..MaxUuids}
\* the names tests/test_elasticsearch.py draws: 'test_create_' and a number
TestNames == {"test_create_1", "test_create_2"}
AllNames == Names \cup Uuids \cup TestNames

NoIndex == [exists |-> FALSE]
Index(s, r, m, a, sz, d, mg) ==
    [exists |-> TRUE, shards |-> s, replicas |-> r, mapping |-> m,
     analysis |-> a, size |-> sz, docs |-> d, merged |-> mg]

\* what Elasticsearch creates when a document is written to a missing index
DefaultIndex == Index(5, 1, "dynamic", "none", Sz(0, 0), {}, FALSE)

Docs == 1..MaxDocs

VARIABLES
    es,        \* cluster: index name -> index, or NoIndex
    aliases,   \* cluster: set of <<alias, index>> bindings
    self,      \* IndexOptimizer fields _datanodes, _indices, _shards
    pc,        \* per invocation: the Connection call it is about to make
    loc,       \* per invocation: local variables of the two methods
    calls,     \* per invocation: Connection calls issued so far, in order
    result,    \* per invocation: "none", "returned" or "raised"
    runs,      \* per index name: invocations of the driver so far
    uuids,     \* number of uuid4 tokens generated so far
    budget,    \* invocations the caller makes on each name
    src0,      \* history: the index under each name when its invocation began
    test       \* the run of tests/test_elasticsearch.py and its last create

vars ==
    <<es, aliases, self, pc, loc, calls, result, runs, uuids, budget, src0,
      test>>

Mutations == {"create", "reindex", "delete", "alias", "forcemerge"}

\* the indices a name resolves to: itself, or the targets of the alias
Resolve(name) ==
    IF es[name].exists THEN {name}
    ELSE {x \in AllNames : <<name, x>> \in aliases}

\* _shards.total of the stats: every copy of every shard
ShardsTotal(ix) == ix.shards * (1 + ix.replicas)

NoLocals ==
    [index_shards |-> 0, index_primary_size |-> Sz(0, 0), shards |-> 0,
     new_index |-> "", c_mapping |-> "", c_analysis |-> "none",
     replicas |-> 0, c_timeout |-> 0, slices |-> 0, r_timeout |-> 0]

Call(i, op, index, other, res) ==
    calls' = [calls EXCEPT ![i] =
                 Append(@, [op |-> op, index |-> index, other |-> other,
                            res |-> res])]

\* an exception leaves the driver: the invocation ends
Raise(i) ==
    /\ pc' = [pc EXCEPT ![i] = "done"]
    /\ result' = [result EXCEPT ![i] = "raised"]

\* the driver returns; neither method has a return statement, so the value
\* returned is None on every path
Return(i) ==
    /\ pc' = [pc EXCEPT ![i] = "done"]
    /\ result' = [result EXCEPT ![i] = "returned"]

Goto(i, label) ==
    /\ pc' = [pc EXCEPT ![i] = label]
    /\ UNCHANGED result

(* ------------------------- initial states ------------------------------ *)
ShardVals == -1..MaxShards
ReplicaVals == 0..MaxReplicas
AnalysisVals == {"none", "a1"}

\* sizes on and one byte around every threshold of the policy: 0, 2 GiB,
\* and the multiples of 15 GiB (45 GiB per shard, rounding ties of 30 GiB),
\* with the two sizes the documentation uses (1.5 GiB, 48 GiB) and half of
\* 500 000 000 bytes (a rounding tie of the reindex timeout)
SizeVals ==
    {Sz(0, 0), Sz(0, 1), Sz(3 * (size_2gb \div 4), 0),
     Sz(size_500mb \div 2, 128),
     SzPred(size_2gb), Sz(size_2gb, 0), Sz(size_2gb, 1),
     Sz(24 * size_2gb, 0)}
    \cup UNION {{SzPred(h * (size_30gb \div 2)),
                 Sz(h * (size_30gb \div 2), 0),
                 Sz(h * (size_30gb \div 2), 1)} : h \in 1..MaxHalfUnits}

\* indices.shards.total of the cluster stats
RECURSIVE SumShards(_)
SumShards(S) ==
    IF S = {} THEN 0
    ELSE LET x == CHOOSE y \in S : TRUE
         IN  ShardsTotal(es[x]) + SumShards(S \ {x})

\* the cluster holds the indices `active`, the optimizer is constructed and
\* a caller is about to invoke the driver `n` times on each of their names
InitCluster(active, n, Replicas, Analyses, Nodes, Counts, docs) ==
    /\ \E f \in [active -> ShardVals \X Replicas \X Analyses \X SizeVals] :
         es = [x \in AllNames |->
                 IF x \in active
                 THEN Index(f[x][1], f[x][2], "m_" \o x, f[x][3], f[x][4],
                            docs, FALSE)
                 ELSE NoIndex]
    /\ aliases = {}
    /\ \E d \in Nodes, c \in Counts :
         self = [datanodes |-> d, indices |-> c,
                 shards |-> SumShards(active)]
    /\ budget = n
    /\ pc = [x \in Names |-> IF x \in active THEN "idle" ELSE "off"]
    /\ loc = [x \in Names |-> NoLocals]
    /\ calls = [x \in Names |-> <<>>]
    /\ result = [x \in Names |-> "none"]
    /\ runs = [x \in Names |-> 0]
    /\ uuids = 0
    /\ src0 = [x \in Names |-> NoIndex]

NoRequest ==
    [url |-> "", data |-> [mappings |-> {}, settings |-> {}], params |-> {}]

\* no test is running
TestOff ==
    [k |-> 0, pc |-> "off", index |-> "", existed |-> FALSE,
     request |-> NoRequest, out |-> "", result |-> FALSE, last |-> 0,
     passed |-> {}]

\* one invocation of the driver on "logs", for every cluster snapshot
Init ==
    /\ InitCluster({"logs"}, 1, ReplicaVals, AnalysisVals, 1..MaxNodes,
                   0..MaxIndices, Docs)
    /\ test = TestOff

\* MaxRuns invocations in succession on "logs"
InitRerun ==
    /\ InitCluster({"logs"}, MaxRuns, {0}, {"none"}, {1}, {1}, {1})
    /\ test = TestOff

\* the two tests of tests/test_elasticsearch.py run against a cluster that
\* holds "logs"; no driver is invoked
InitTest ==
    /\ InitCluster({"logs"}, 0, {0}, {"none"}, {1}, {1}, {1})
    /\ test = [TestOff EXCEPT !.k = 1, !.pc = "create"]

\* the (configured shards, primary size) of the indices of concurrent
\* invocations: one to consolidate, one to expand, one to leave alone
ConcCases ==
    {<<2, Sz(0, 0)>>, <<1, Sz(24 * size_2gb, 0)>>, <<1, Sz(0, 0)>>}

\* one invocation on each name, run by concurrent threads on one optimizer
InitConc ==
    /\ InitCluster(Names, 1, {0}, {"none"}, {1}, {Cardinality(Names)}, {1})
    /\ \A x \in Names : <<es[x].shards, es[x].size>> \in ConcCases
    /\ test = TestOff

(* ------------------------------ driver -------------------------------- *)
\* a caller invokes index_optimize_shards(i), for the first time or again
\* after the previous invocation on that name has ended
Invoke(i) ==
    /\ \/ pc[i] = "idle"
       \/ pc[i] = "done" /\ runs[i] < budget
    /\ pc' = [pc EXCEPT ![i] = "opt_get_config"]
    /\ result' = [result EXCEPT ![i] = "none"]
    /\ runs' = [runs EXCEPT ![i] = @ + 1]
    /\ loc' = [loc EXCEPT ![i] = NoLocals]
    /\ calls' = [calls EXCEPT ![i] = <<>>]
    /\ src0' = [src0 EXCEPT ![i] = es[i]]
    /\ UNCHANGED <<es, aliases, self, uuids, budget, test>>

\* index_get_config(i) answers {concrete name: config}; the subscript [i]
\* finds it only when i is itself an index (KeyError for an alias, for a
\* missing index and for an error response)
ConfigFound(i, ok) == ok /\ es[i].exists

\* index_get_stats(i) answers through aliases too
StatsFound(i, ok) == ok /\ Resolve(i) # {}
StatsOf(i) == es[CHOOSE x \in Resolve(i) : TRUE]

OptGetConfig(i) ==
    /\ pc[i] = "opt_get_config"
    /\ \E ok \in BOOLEAN :
         IF ConfigFound(i, ok)
         THEN /\ Call(i, "get_config", i, "", "ok")
              /\ loc' = [loc EXCEPT ![i].index_shards = es[i].shards]
              /\ Goto(i, "opt_get_stats")
         ELSE /\ Call(i, "get_config", i, "", "fail")
              /\ Raise(i)
              /\ UNCHANGED loc
    /\ UNCHANGED <<es, aliases, self, runs, uuids, budget, src0, test>>

OptGetStats(i) ==
    /\ pc[i] = "opt_get_stats"
    /\ \E ok \in BOOLEAN :
         IF StatsFound(i, ok)
         THEN LET size == StatsOf(i).size
                  decision == Policy(loc[i].index_shards, size)
              IN  /\ Call(i, "get_stats", i, "", "ok")
                  /\ CASE decision.kind = "replace" ->
                            /\ loc' = [loc EXCEPT
                                         ![i].index_primary_size = size,
                                         ![i].shards = decision.target,
                                         ![i].new_index = Uuid(uuids + 1)]
                            /\ uuids' = uuids + 1
                            /\ Goto(i, "rep_get_config")
                       [] decision.kind = "none" ->
                            /\ loc' = [loc EXCEPT
                                         ![i].index_primary_size = size]
                            /\ Return(i)
                            /\ UNCHANGED uuids
                       [] decision.kind = "error" ->
                            /\ loc' = [loc EXCEPT
                                         ![i].index_primary_size = size]
                            /\ Raise(i)
                            /\ UNCHANGED uuids
         ELSE /\ Call(i, "get_stats", i, "", "fail")
              /\ Raise(i)
              /\ UNCHANGED <<loc, uuids>>
    /\ UNCHANGED <<es, aliases, self, runs, budget, src0, test>>

(* --------------------------- index_replace ---------------------------- *)
Outcomes == {"ok", "fail", "raise"}

\* index_replace with the force-merge moved before the alias update
AfterMergeFirst(label) ==
    CASE label = "rep_get_config" -> "rep_create"
      [] label = "rep_create" -> "rep_get_stats"
      [] label = "rep_get_stats" -> "rep_reindex"
      [] label = "rep_reindex" -> "rep_delete"
      [] label = "rep_delete" -> "rep_forcemerge"
      [] label = "rep_forcemerge" -> "rep_alias"
      [] label = "rep_alias" -> "done"

\* the order of the Connection calls in the body of index_replace: the call
\* that follows the one at `label`; after the last one index_replace and
\* the driver return
After(label) ==
    CASE label = "rep_get_config" -> "rep_create"
      [] label = "rep_create" -> "rep_get_stats"
      [] label = "rep_get_stats" -> "rep_reindex"
      [] label = "rep_reindex" -> "rep_delete"
      [] label = "rep_delete" -> "rep_alias"
      [] label = "rep_alias" -> "rep_forcemerge"
      [] label = "rep_forcemerge" -> "done"

\* control passes to the statement after the call at `label`
Step(i, label) ==
    IF After(label) = "done" THEN Return(i) ELSE Goto(i, After(label))

\* replicas passed on as the source has them
CapReplicasNone(replicas, datanodes) == replicas

\* the replicas of the new index: those of the source, at most one per
\* data node
CapReplicas(replicas, datanodes) ==
    IF replicas > datanodes THEN datanodes ELSE replicas

\* rounding of the index density that takes every tie upwards
CreateTimeoutHalfUp(indices, datanodes) ==
    1 + (2 * indices + datanodes) \div (2 * datanodes)

\* a remainder taken where the quotient was meant
CreateTimeoutModulo(indices, datanodes) == 1 + (indices % datanodes)

\* c_timeout, in minutes: 1 + round(self._indices / self._datanodes)
CreateTimeout(indices, datanodes) == 1 + RoundRatio(indices, datanodes)

\* a timeout without the hour added to the rounded quotient
ReindexTimeoutNoMargin(primary_size) == RoundDiv(primary_size, size_500mb)

\* r_timeout, in hours: 1 + round(primary_size / 500000000)
ReindexTimeout(primary_size) == 1 + RoundDiv(primary_size, size_500mb)

\* slices taken from the configured number_of_shards
SlicesConfigured(stats, l) == l.index_shards

\* slices: _shards.total of the stats of the source
Slices(stats, l) == ShardsTotal(stats)

RepGetConfig(i) ==
    /\ pc[i] = "rep_get_config"
    /\ \E ok \in BOOLEAN :
         IF ConfigFound(i, ok)
         THEN /\ Call(i, "get_config", i, "", "ok")
              /\ loc' = [loc EXCEPT
                           ![i].c_mapping = es[i].mapping,
                           ![i].c_analysis = es[i].analysis,
                           ![i].replicas =
                               CapReplicas(es[i].replicas, self.datanodes),
                           ![i].c_timeout =
                               CreateTimeout(self.indices, self.datanodes)]
              /\ Step(i, "rep_get_config")
         ELSE /\ Call(i, "get_config", i, "", "fail")
              /\ Raise(i)
              /\ UNCHANGED loc
    /\ UNCHANGED <<es, aliases, self, runs, uuids, budget, src0, test>>

\* a create request that leaves out the analysis settings
NewIndexNoAnalysis(l) ==
    Index(l.shards, l.replicas, l.c_mapping, "none", Sz(0, 0), {}, FALSE)

\* the index the create request asks for
NewIndex(l) ==
    Index(l.shards, l.replicas, l.c_mapping, l.c_analysis, Sz(0, 0), {},
          FALSE)

\* index_create: "ok" is an acknowledged creation; "fail" is a response that
\* is not ok (rejected, or not acknowledged in time, in which case the index
\* may exist all the same); "raise" is a transport error of requests.
\* The return value is dropped by index_replace.
RepCreate(i) ==
    /\ pc[i] = "rep_create"
    /\ LET new == loc[i].new_index
       IN \E out \in Outcomes, applied \in BOOLEAN :
            /\ out = "ok" => applied /\ ~es[new].exists
            /\ out = "raise" => ~applied
            /\ applied => ~es[new].exists
            /\ es' = IF applied
                     THEN [es EXCEPT ![new] = NewIndex(loc[i])]
                     ELSE es
            /\ Call(i, "create", new, "", out)
            /\ IF out = "raise" THEN Raise(i) ELSE Step(i, "rep_create")
    /\ UNCHANGED <<aliases, self, loc, runs, uuids, budget, src0, test>>

RepGetStats(i) ==
    /\ pc[i] = "rep_get_stats"
    /\ \E ok \in BOOLEAN :
         IF StatsFound(i, ok)
         THEN LET primary_size == StatsOf(i).size
              IN  /\ Call(i, "get_stats", i, "", "ok")
                  /\ loc' = [loc EXCEPT
                               ![i].slices = Slices(StatsOf(i), loc[i]),
                               ![i].r_timeout =
                                   ReindexTimeout(primary_size)]
                  /\ Step(i, "rep_get_stats")
         ELSE /\ Call(i, "get_stats", i, "", "fail")
              /\ Raise(i)
              /\ UNCHANGED loc
    /\ UNCHANGED <<es, aliases, self, runs, uuids, budget, src0, test>>

\* the destination after copying the documents `copied` of the source into
\* it; a missing destination is created with default settings
Reindexed(src, dst, copied) ==
    LET base == IF es[dst].exists THEN es[dst] ELSE DefaultIndex
    IN  [es EXCEPT ![dst] =
            [base EXCEPT !.docs = @ \cup copied,
                         !.size = IF copied = src.docs THEN src.size
                                  ELSE base.size]]

\* index_reindex: "ok" copies every document; "fail" is a response that is
\* not ok (source missing, or a timeout after a partial copy); "raise" is a
\* transport error.  The return value is dropped by index_replace.
RepReindex(i) ==
    /\ pc[i] = "rep_reindex"
    /\ LET new == loc[i].new_index
       IN \E out \in Outcomes :
            /\ out = "ok" => Resolve(i) # {}
            /\ CASE out = "ok" ->
                      es' = Reindexed(StatsOf(i), new, StatsOf(i).docs)
                 [] out = "fail" /\ Resolve(i) # {} ->
                      \E part \in SUBSET StatsOf(i).docs :
                         /\ part # StatsOf(i).docs
                         /\ es' = Reindexed(StatsOf(i), new, part)
                 [] OTHER -> es' = es
            /\ Call(i, "reindex", i, new, out)
            /\ IF out = "raise" THEN Raise(i) ELSE Step(i, "rep_reindex")
    /\ UNCHANGED <<aliases, self, loc, runs, uuids, budget, src0, test>>

\* index_delete: only a concrete index can be deleted; its aliases go with
\* it.  The return value is dropped by index_replace.
RepDelete(i) ==
    /\ pc[i] = "rep_delete"
    /\ \E out \in Outcomes :
         /\ out = "ok" => es[i].exists
         /\ IF out = "ok"
            THEN /\ es' = [es EXCEPT ![i] = NoIndex]
                 /\ aliases' = {a \in aliases : a[2] # i}
            ELSE UNCHANGED <<es, aliases>>
         /\ Call(i, "delete", i, "", out)
         /\ IF out = "raise" THEN Raise(i) ELSE Step(i, "rep_delete")
    /\ UNCHANGED <<self, loc, runs, uuids, budget, src0, test>>

\* alias_update(new_index, index): the cluster accepts the alias only for
\* an existing index and only when no index has the alias's name.
\* The method returns nothing.
RepAlias(i) ==
    /\ pc[i] = "rep_alias"
    /\ LET new == loc[i].new_index
       IN \E out \in Outcomes :
            /\ out = "ok" => es[new].exists /\ ~es[i].exists
            /\ aliases' = IF out = "ok" THEN aliases \cup {<<i, new>>}
                          ELSE aliases
            /\ Call(i, "alias", new, i, out)
            /\ IF out = "raise" THEN Raise(i)
               ELSE Step(i, "rep_alias")
    /\ UNCHANGED <<es, self, loc, runs, uuids, budget, src0, test>>

\* index_forcemerge(new_index); the method returns nothing
RepForcemerge(i) ==
    /\ pc[i] = "rep_forcemerge"
    /\ LET new == loc[i].new_index
       IN \E out \in Outcomes :
            /\ out = "ok" => es[new].exists
            /\ es' = IF out = "ok" THEN [es EXCEPT ![new].merged = TRUE]
                     ELSE es
            /\ Call(i, "forcemerge", new, "", out)
            /\ IF out = "raise" THEN Raise(i) ELSE Step(i, "rep_forcemerge")
    /\ UNCHANGED <<aliases, self, loc, runs, uuids, budget, src0, test>>

(* ------------------- Connection.index_create, as tested ---------------- *)
\* query parameters that ask to wait for the shards whatever the timeout
IndexCreateParamsAlwaysWait(timeout) ==
    {<<"wait_for_active_shards", "all">>}
    \cup {<<"timeout", t>> : t \in timeout}

\* an optional argument is the empty set (None) or a singleton.
\* params of the request: only a timeout asks to wait for all shards
IndexCreateParams(timeout) ==
    IF timeout # {}
    THEN {<<"wait_for_active_shards", "all">>}
         \cup {<<"timeout", t>> : t \in timeout}
    ELSE {}

\* the PUT request index_create sends: the body holds mappings and settings
\* only when they are given
IndexCreateRequest(index, mappings, settings, timeout) ==
    [url |-> index,
     data |-> [mappings |-> mappings, settings |-> settings],
     params |-> IndexCreateParams(timeout)]

\* index_create returns response.ok
IndexCreateReturn(out) == out = "ok"

\* the index the cluster creates for a request
CreatedIndex(request) ==
    IF request.data.settings = {} THEN DefaultIndex
    ELSE LET st == CHOOSE x \in request.data.settings : TRUE
         IN  Index(st.shards, st.replicas, "dynamic", "none", Sz(0, 0), {},
                   FALSE)

\* test 1 is test_create_with_timeout, test 2 is test_create_default
TestArgs(k) ==
    IF k = 1
    THEN [mappings |-> {}, settings |-> {[shards |-> 4, replicas |-> 0]},
          timeout |-> {"1m"}]
    ELSE [mappings |-> {}, settings |-> {}, timeout |-> {}]

\* after test k ends the next test starts
TestEnds(t) ==
    IF t.k = 2 THEN [t EXCEPT !.pc = "end"]
    ELSE [t EXCEPT !.k = @ + 1, !.pc = "create"]

\* result = con.index_create(...); assert result is True
TestCreate ==
    /\ test.pc = "create"
    /\ \E name \in TestNames, out \in Outcomes, applied \in BOOLEAN :
         LET args == TestArgs(test.k)
             request == IndexCreateRequest(name, args.mappings,
                                           args.settings, args.timeout)
             after == [test EXCEPT !.index = name,
                                   !.existed = es[name].exists,
                                   !.request = request,
                                   !.out = out,
                                   !.result = IndexCreateReturn(out),
                                   !.last = test.k,
                                   !.passed = IF IndexCreateReturn(out)
                                              THEN @ \cup {test.k}
                                              ELSE @]
         IN  /\ out = "ok" => applied
             /\ out = "raise" => ~applied
             /\ applied => ~es[name].exists
             /\ es' = IF applied
                      THEN [es EXCEPT ![name] = CreatedIndex(request)]
                      ELSE es
             /\ test' = IF out # "raise" /\ IndexCreateReturn(out)
                        THEN [after EXCEPT !.pc = "delete"]
                        ELSE TestEnds(after)
    /\ UNCHANGED <<aliases, self, pc, loc, calls, result, runs, uuids,
                   budget, src0>>

\* con.index_delete(index)
TestDelete ==
    /\ test.pc = "delete"
    /\ \E out \in Outcomes :
         /\ out = "ok" => es[test.index].exists
         /\ IF out = "ok"
            THEN /\ es' = [es EXCEPT ![test.index] = NoIndex]
                 /\ aliases' = {a \in aliases : a[2] # test.index}
            ELSE UNCHANGED <<es, aliases>>
         /\ test' = TestEnds(test)
    /\ UNCHANGED <<self, pc, loc, calls, result, runs, uuids, budget, src0>>

NextTest == TestCreate \/ TestDelete

Next ==
    \E i \in Names :
       \/ Invoke(i)
       \/ OptGetConfig(i)
       \/ OptGetStats(i)
       \/ RepGetConfig(i)
       \/ RepCreate(i)
       \/ RepGetStats(i)
       \/ RepReindex(i)
       \/ RepDelete(i)
       \/ RepAlias(i)
       \/ RepForcemerge(i)

Spec == Init /\ [][Next]_vars

SpecRerun == InitRerun /\ [][Next]_vars

SpecConc == InitConc /\ [][Next]_vars

SpecTest == InitTest /\ [][NextTest]_vars

TypeOK ==
    /\ \A n \in Names : Cardinality(Resolve(n)) <= 1
    /\ uuids <= MaxUuids
    /\ \A n \in Names : pc[n] \in {"off", "idle", "done", "opt_get_config",
          "opt_get_stats", "rep_get_config", "rep_create", "rep_get_stats",
          "rep_reindex", "rep_delete", "rep_alias", "rep_forcemerge"}

(* ======================== properties ================================== *)
\* the Connection calls of invocation i that change the cluster, in order
MutationCalls(i) == SelectSeq(calls[i], LAMBDA c : c.op \in Mutations)

\* some call to op was issued after call number k of invocation i
IssuedAfter(i, k, ops) ==
    \E j \in (k + 1)..Len(calls[i]) : calls[i][j].op \in ops

\* index_replace was entered by invocation i (its first statement ran)
Entered(i) == loc[i].new_index # ""

\* every Connection call of invocation i so far succeeded
AllOk(i) == \A k \in DOMAIN calls[i] : calls[i][k].res = "ok"

\* C1: if the reindex call reports failure or times out, the workflow stops
\* there: no delete, alias update or force-merge is issued after it, and the
\* source index still exists under its own name, unchanged.
C1_ReindexFailureStops ==
    \A i \in Names : \A k \in DOMAIN calls[i] :
       (calls[i][k].op = "reindex" /\ calls[i][k].res # "ok")
       => /\ ~IssuedAfter(i, k, {"delete", "alias", "forcemerge"})
          /\ es[i] = src0[i]

\* C2: if creating the replacement index fails (index_create returns false),
\* the workflow aborts: no reindex, delete or alias update is issued.
C2_CreateFailureAborts ==
    \A i \in Names : \A k \in DOMAIN calls[i] :
       (calls[i][k].op = "create" /\ calls[i][k].res = "fail")
       => ~IssuedAfter(i, k, {"reindex", "delete", "alias"})

\* C3: when an invocation has ended, the name resolves to exactly one index:
\* the replacement if the workflow ran and every call succeeded, the
\* original index otherwise.
C3_NameBoundToExactlyOne ==
    \A i \in Names :
       pc[i] = "done"
       => IF Entered(i) /\ result[i] = "returned" /\ AllOk(i)
          THEN Resolve(i) = {loc[i].new_index}
          ELSE Resolve(i) = {i}

\* C4: every retrieval of config or stats precedes the first mutation of the
\* invocation, so a failed retrieval leaves no mutation behind.
C4_FetchesBeforeMutations ==
    \A i \in Names : \A k \in DOMAIN calls[i] :
       calls[i][k].op \in {"get_config", "get_stats"}
       => \A j \in 1..(k - 1) : calls[i][j].op \notin Mutations

\* the mutation calls of a reshard of name i into replacement new, in the
\* order the workflow is to issue them
ExpectedMutations(i, new) ==
    << [op |-> "create", index |-> new, other |-> "", res |-> "ok"],
       [op |-> "reindex", index |-> i, other |-> new, res |-> "ok"],
       [op |-> "delete", index |-> i, other |-> "", res |-> "ok"],
       [op |-> "alias", index |-> new, other |-> i, res |-> "ok"],
       [op |-> "forcemerge", index |-> new, other |-> "", res |-> "ok"] >>

\* a reshard that ran to its end with every Connection call succeeding
FullySuccessful(i) ==
    pc[i] = "done" /\ result[i] = "returned" /\ Entered(i) /\ AllOk(i)

\* C5: when every call succeeds and the policy decides to reshard, the
\* mutations issued are exactly create, reindex, delete, alias update and
\* force-merge, once each and in that order: at every moment the mutations
\* issued so far are a prefix of that sequence, and at the end they are all
\* of it; the source exists until the delete, which follows the reindex.
C5_MutationOrder ==
    \A i \in Names :
       (Entered(i) /\ AllOk(i))
       => LET got == MutationCalls(i)
              want == ExpectedMutations(i, loc[i].new_index)
          IN  /\ Len(got) <= Len(want)
              /\ got = SubSeq(want, 1, Len(got))
              /\ FullySuccessful(i) => got = want
              /\ Len(got) < 3 => es[i].exists
              /\ Len(got) < 4 => i \notin {a[1] : a \in aliases}

C5_Witness ==
    /\ FullySuccessful("logs")
    /\ Len(MutationCalls("logs")) = 5
    /\ ~es["logs"].exists

\* C6: after a fully successful reshard of S to t shards, S no longer
\* exists as an index, the name S is an alias of the replacement alone, and
\* the replacement has t shards, the mapping and the analysis settings of
\* the source (none when the source had none) and every document of it.
C6_FinalState ==
    \A i \in Names :
       FullySuccessful(i)
       => LET new == loc[i].new_index
          IN  /\ ~es[i].exists
              /\ {a \in aliases : a[1] = i} = {<<i, new>>}
              /\ es[new].exists
              /\ new # i
              /\ es[new].shards = loc[i].shards
              /\ es[new].mapping = src0[i].mapping
              /\ es[new].analysis = src0[i].analysis
              /\ src0[i].docs \subseteq es[new].docs

C6_Witness ==
    /\ FullySuccessful("logs")
    /\ src0["logs"].analysis = "a1"
    /\ src0["logs"].docs # {}
    /\ es[loc["logs"].new_index].shards > 1

\* the driver of invocation i has fetched config and stats and has taken its
\* decision
Decided(i) ==
    /\ Len(calls[i]) >= 2
    /\ calls[i][1].res = "ok"
    /\ calls[i][2].res = "ok"

\* the driver ended without entering the workflow: it returned or raised
\* after its two fetches, having issued nothing else
NoActionTaken(i) ==
    /\ pc[i] = "done"
    /\ ~Entered(i)
    /\ Len(calls[i]) = 2

\* the driver called index_replace(i, t)
ReplaceCalled(i, t) ==
    /\ Entered(i)
    /\ loc[i].shards = t
    /\ Len(calls[i]) > 2 \/ pc[i] = "rep_get_config"

\* the size is below 2 147 483 648 bytes
Below2GiB(size) == size.u < 8388608

\* C7: consolidation rule: an index with primary size < 2 147 483 648 bytes
\* and more than 1 configured shard is resharded to 1 shard; an index with
\* 1 shard and primary size < 2 147 483 648 bytes (0 included) is left alone
\* and the driver returns.
C7_Consolidation ==
    \A i \in Names :
       Decided(i)
       => LET s == src0[i].shards
              B == src0[i].size
          IN  /\ (Below2GiB(B) /\ s > 1) => ReplaceCalled(i, 1)
              /\ (Below2GiB(B) /\ s = 1)
                    => NoActionTaken(i) /\ result[i] = "returned"

C7_Witness ==
    /\ Decided("logs")
    /\ src0["logs"].shards = MaxShards
    /\ src0["logs"].size = SzPred(size_2gb)
    /\ pc["logs"] = "rep_create"

\* the size is above s times 48 318 382 080 bytes (s > 0)
Above45GiBPerShard(size, s) ==
    \/ size.u > 188743680 * s
    \/ size.u = 188743680 * s /\ size.b > 0

\* c is the integer nearest to size / 32 212 254 720, the even one of the
\* two when the quotient lies halfway
IsRounded(c, size) ==
    LET lo == Sz(125829120 * c - 62914560, 0)
        hi == Sz(125829120 * c + 62914560, 0)
    IN  /\ ~SzLt(size, lo)
        /\ ~SzLt(hi, size)
        /\ size \in {lo, hi} => c % 2 = 0

Candidates(size) == 0..(size.u \div 125829120 + 1)

\* C8: expansion rule: when the consolidation rule does not match and the
\* primary size per configured shard is above 48 318 382 080 bytes, the
\* candidate is the primary size divided by 32 212 254 720, rounded; the
\* driver reshards to the candidate exactly when it exceeds the shard
\* count and otherwise, or when the size per shard is not above the
\* threshold, takes no action and returns.
C8_Expansion ==
    \A i \in Names :
       LET s == src0[i].shards
           B == src0[i].size
       IN  (Decided(i) /\ s # 0 /\ ~(Below2GiB(B) /\ s > 1))
           => IF s > 0 /\ Above45GiBPerShard(B, s)
              THEN \E c \in Candidates(B) :
                      /\ IsRounded(c, B)
                      /\ IF c > s THEN ReplaceCalled(i, c)
                         ELSE NoActionTaken(i) /\ result[i] = "returned"
              ELSE NoActionTaken(i) /\ result[i] = "returned"

\* 75 GiB in one shard: the quotient 2.5 lies halfway and the target is 2
C8_Witness ==
    /\ Decided("logs")
    /\ src0["logs"].shards = 1
    /\ src0["logs"].size = Sz(5 * 62914560, 0)
    /\ ReplaceCalled("logs", 2)
    /\ pc["logs"] = "rep_create"

\* neither rule of the policy matches for s shards (s # 0) and this size
NoChange(s, size) ==
    /\ s # 0
    /\ ~(Below2GiB(size) /\ s > 1)
    /\ ~(/\ s > 0
         /\ Above45GiBPerShard(size, s)
         /\ \E c \in Candidates(size) : IsRounded(c, size) /\ c > s)

\* C9: when the policy decides that no change is needed the driver issues no
\* mutation and returns, on the first invocation and on every later one: the
\* index is as it was when the invocation began.
C9_NoOpNoMutation ==
    \A i \in Names :
       (Decided(i) /\ NoChange(src0[i].shards, src0[i].size))
       => /\ NoActionTaken(i)
          /\ result[i] = "returned"
          /\ MutationCalls(i) = <<>>
          /\ es[i] = src0[i]

\* the second of two invocations on an index of 2 shards and 90 GiB
C9_Witness ==
    /\ runs["logs"] = 2
    /\ Decided("logs")
    /\ src0["logs"].shards = 2
    /\ src0["logs"].size = Sz(2 * 188743680, 0)
    /\ pc["logs"] = "done"
    /\ calls["logs"] = << [op |-> "get_config", index |-> "logs",
                            other |-> "", res |-> "ok"],
                          [op |-> "get_stats", index |-> "logs",
                            other |-> "", res |-> "ok"] >>

\* C10: for an index whose shard count is below 1 the driver fails with an
\* error and issues no mutation, whatever the primary size.
C10_InvalidShardCountFails ==
    \A i \in Names :
       (Decided(i) /\ src0[i].shards < 1)
       => /\ NoActionTaken(i)
          /\ result[i] = "raised"

\* invocation i has issued a call to op
Issued(i, op) == \E k \in DOMAIN calls[i] : calls[i][k].op = op

\* call number k of invocation i, or no call
ResultOf(i, op) ==
    {calls[i][k].res : k \in {j \in DOMAIN calls[i] : calls[i][j].op = op}}

Min(a, b) == IF a < b THEN a ELSE b
Max(a, b) == IF a > b THEN a ELSE b

\* C11: the replica count sent in the settings of the create request is
\* min(r, D) for r configured replicas and D data nodes, so never above D;
\* an acknowledged replacement has that many replicas.
C11_ReplicaCap ==
    \A i \in Names :
       Issued(i, "create")
       => /\ loc[i].replicas = Min(src0[i].replicas, self.datanodes)
          /\ loc[i].replicas <= self.datanodes
          /\ ResultOf(i, "create") = {"ok"}
                => es[loc[i].new_index].replicas = loc[i].replicas

\* more replicas configured than there are data nodes
C11_Witness ==
    /\ Issued("logs", "create")
    /\ src0["logs"].replicas = MaxReplicas
    /\ self.datanodes = 1
    /\ es[loc["logs"].new_index].exists
    /\ es[loc["logs"].new_index].replicas = 1

\* ceil(n / d) for n >= 0, d > 0
CeilRatio(n, d) == (n + d - 1) \div d

\* q is the integer nearest to n / d, the even one of the two on a tie
IsRoundedRatio(q, n, d) ==
    LET twice == IF 2 * n >= 2 * q * d THEN 2 * n - 2 * q * d
                 ELSE 2 * q * d - 2 * n
    IN  twice <= d /\ (twice = d => q % 2 = 0)

\* C12 as stated: the creation timeout passed to index_create is
\* max(1, ceil(I / D)) minutes.
C12_CreateTimeoutIsCeil ==
    \A i \in Names :
       Issued(i, "create")
       => loc[i].c_timeout = Max(1, CeilRatio(self.indices, self.datanodes))

\* C12 amended: the creation timeout is 1 + round(I / D) minutes, rounding
\* to the nearest integer and a tie to the even one; it is never below
\* max(1, ceil(I / D)).
C12_CreateTimeoutIsOnePlusRound ==
    \A i \in Names :
       Issued(i, "create")
       => /\ \E q \in 0..self.indices :
               /\ IsRoundedRatio(q, self.indices, self.datanodes)
               /\ loc[i].c_timeout = 1 + q
          /\ loc[i].c_timeout
                >= Max(1, CeilRatio(self.indices, self.datanodes))

\* one index on two data nodes: round(0.5) is 0 and the timeout 1 minute
C12_Witness ==
    /\ Issued("logs", "create")
    /\ self.indices = 1
    /\ self.datanodes = 2
    /\ loc["logs"].c_timeout = 1

\* ceil(size / (256 * den))
CeilDiv(size, den) ==
    size.u \div den + (IF size.u % den = 0 /\ size.b = 0 THEN 0 ELSE 1)

\* q is the integer nearest to size / 500 000 000, the even one on a tie
IsRoundedHours(q, size) ==
    LET lo == Sz(1953125 * q - 976563, 128)
        hi == Sz(1953125 * q + 976562, 128)
    IN  /\ ~SzLt(size, lo)
        /\ ~SzLt(hi, size)
        /\ size \in {lo, hi} => q % 2 = 0

\* C13 as stated: the reindex timeout passed to index_reindex is
\* max(1, ceil(B / 500 000 000)) hours.
C13_ReindexTimeoutIsCeil ==
    \A i \in Names :
       Issued(i, "reindex")
       => loc[i].r_timeout = Max(1, CeilDiv(src0[i].size, 1953125))

\* C13 amended: the reindex timeout is 1 + round(B / 500 000 000) hours,
\* rounding to the nearest integer and a tie to the even one; it is never
\* below max(1, ceil(B / 500 000 000)).
C13_ReindexTimeoutIsOnePlusRound ==
    \A i \in Names :
       Issued(i, "reindex")
       => LET B == src0[i].size
          IN  /\ \E q \in {B.u \div 1953125, B.u \div 1953125 + 1} :
                   /\ IsRoundedHours(q, B)
                   /\ loc[i].r_timeout = 1 + q
              /\ loc[i].r_timeout >= Max(1, CeilDiv(B, 1953125))

\* 45 GiB and a byte: the quotient 96.6 rounds to 97, the timeout is 98 hours
C13_Witness ==
    /\ Issued("logs", "reindex")
    /\ src0["logs"].size = Sz(188743680, 1)
    /\ loc["logs"].r_timeout = 98

\* C14: for a fixed number of data nodes the creation timeout is at least
\* that of every smaller index count, the reindex timeout is at least that
\* of every smaller primary size, and both are at least 1.
C14_TimeoutsMonotone ==
    \A i \in Names :
       /\ Issued(i, "create")
          => /\ loc[i].c_timeout >= 1
             /\ \A n \in 0..self.indices :
                   CreateTimeout(n, self.datanodes) <= loc[i].c_timeout
       /\ Issued(i, "reindex")
          => /\ loc[i].r_timeout >= 1
             /\ \A B \in SizeVals :
                   ~SzLt(src0[i].size, B)
                   => ReindexTimeout(B) <= loc[i].r_timeout

C14_Witness ==
    /\ Issued("logs", "reindex")
    /\ self.indices = MaxIndices
    /\ self.datanodes = MaxNodes
    /\ SzLt(Sz(size_45gb, 0), src0["logs"].size)

\* C15: the slices passed to the reindex call are the shard count the stats
\* of the source report (every copy of every shard), whatever the
\* configured number_of_shards and the target shard count are.
C15_SlicesFromStats ==
    \A i \in Names :
       Issued(i, "reindex")
       => loc[i].slices = src0[i].shards * (1 + src0[i].replicas)

\* 2 shards with 1 replica resharded to 1: slices 4, configured 2, target 1
C15_Witness ==
    /\ Issued("logs", "reindex")
    /\ src0["logs"].shards = 2
    /\ src0["logs"].replicas = 1
    /\ loc["logs"].shards = 1
    /\ loc["logs"].slices = 4

\* C16: a failure of the force-merge call, after every earlier call
\* succeeded, does not make the invocation fail: it ends returning
\* normally, with the name bound to the replacement.
C16_ForcemergeBestEffort ==
    \A i \in Names :
       (/\ pc[i] = "done"
        /\ Issued(i, "forcemerge")
        /\ "ok" \notin ResultOf(i, "forcemerge")
        /\ \A k \in DOMAIN calls[i] :
              calls[i][k].op # "forcemerge" => calls[i][k].res = "ok")
       => /\ result[i] = "returned"
          /\ Resolve(i) = {loc[i].new_index}

\* what an invocation on name j reads and writes: the index of that name,
\* the aliases of that name, its replacement index and its own locals
View(j) ==
    << es[j], {a \in aliases : a[1] = j}, loc[j], result[j],
       IF Entered(j) THEN es[loc[j].new_index] ELSE NoIndex >>

\* the cluster state of name i follows from the results of the calls of its
\* own invocation alone
OwnOutcome(i) ==
    /\ es[i] = IF "ok" \in ResultOf(i, "delete") THEN NoIndex ELSE src0[i]
    /\ {a \in aliases : a[1] = i} =
          IF "ok" \in ResultOf(i, "alias")
          THEN {<<i, loc[i].new_index>>} ELSE {}
    /\ (Entered(i) /\ es[loc[i].new_index].exists)
          => /\ es[loc[i].new_index].merged
                   = ("ok" \in ResultOf(i, "forcemerge"))
             /\ es[loc[i].new_index].docs \subseteq src0[i].docs
             /\ "ok" \in ResultOf(i, "reindex")
                   => es[loc[i].new_index].docs = src0[i].docs

\* C17: concurrent invocations on distinct names do not interfere: a step
\* of one invocation changes nothing that another reads or writes, the
\* state of each name is at every moment the one its own calls produce, as
\* when it runs alone, and no step changes the snapshot taken at
\* construction.
C17_NoInterference ==
    /\ [][/\ self' = self
          /\ \A j \in Names :
                (pc'[j] = pc[j] /\ calls'[j] = calls[j])
                => View(j)' = View(j)]_vars
    /\ [](\A i \in Names : runs[i] > 0 => OwnOutcome(i))

\* both invocations are in the middle of their workflows at once
C17_Witness ==
    /\ pc["logs"] = "rep_alias"
    /\ pc["metrics"] = "rep_reindex"
    /\ ~es["logs"].exists
    /\ es[loc["metrics"].new_index].exists
    /\ loc["logs"].new_index # loc["metrics"].new_index

\* C18: the result the driver returns when the policy decides no change
\* differs from the result it returns after a successful reshard.
C18_NoOpReportedDistinctly ==
    \A i, j \in Names :
       (/\ NoActionTaken(i)
        /\ Decided(i)
        /\ result[i] = "returned"
        /\ FullySuccessful(j))
       => result[i] # result[j]

\* C20: the policy reaches a fixed point after one reshard: when it chooses
\* a target t for s >= 1 shards and size B, t differs from s and the policy
\* takes no action for (t, B); the replacement of a successful reshard,
\* which has t shards and the size of the source, is left alone by it.
C20_PolicyFixedPoint ==
    \A i \in Names :
       (Decided(i) /\ Entered(i) /\ src0[i].shards >= 1)
       => /\ loc[i].shards # src0[i].shards
          /\ Policy(loc[i].shards, src0[i].size) = NoAction
          /\ FullySuccessful(i)
                => LET new == es[loc[i].new_index]
                   IN  Policy(new.shards, new.size) = NoAction

\* 48 GiB in one shard was resharded to 2 shards
C20_Witness ==
    /\ FullySuccessful("logs")
    /\ src0["logs"].shards = 1
    /\ src0["logs"].size = Sz(24 * size_2gb, 0)
    /\ es[loc["logs"].new_index].shards = 2
    /\ es[loc["logs"].new_index].size = src0["logs"].size

\* C19: index_create returns True exactly when the cluster accepted the
\* request. On a name that did not exist an accepted request leaves the
\* index in the cluster, with the settings given (test_create_with_timeout)
\* or with the defaults when nothing is given (test_create_default). The
\* request asks to wait for all shards, with its timeout, exactly when a
\* timeout is given, and its body holds exactly the arguments given.
C19_IndexCreate ==
    test.request # NoRequest
    => LET args == TestArgs(test.last)
           waits == <<"wait_for_active_shards", "all">> \in test.request.params
       IN  /\ test.out # "raise" => test.result = (test.out = "ok")
           /\ test.pc = "delete" => test.result
           /\ (test.pc = "delete" /\ test.last \in {1, 2})
                 => /\ test.out = "ok"
                    /\ ~test.existed
                    /\ es[test.index].exists
                    /\ args.settings # {}
                          => \E st \in args.settings :
                               /\ es[test.index].shards = st.shards
                               /\ es[test.index].replicas = st.replicas
                    /\ args.settings = {}
                          => es[test.index] = DefaultIndex
           /\ (~test.existed /\ test.out = "ok") => test.last \in test.passed
           /\ waits = (args.timeout # {})
           /\ args.timeout = {} => test.request.params = {}
           /\ args.timeout # {}
                 => \E t \in args.timeout :
                      <<"timeout", t>> \in test.request.params
           /\ test.request.data.settings = args.settings
           /\ test.request.data.mappings = args.mappings

\* both tests got True, and the index of test_create_default is in the
\* cluster with the defaults, created by a request without parameters
C19_Witness ==
    /\ test.passed = {1, 2}
    /\ test.pc = "delete"
    /\ test.result
    /\ test.request.params = {}
    /\ es[test.index] = DefaultIndex

====
